---- MODULE Spec2Model ----
(***************************************************************************)
(* The PDF ingestion command of Queryforge (src/ingest_pdf.py): main()     *)
(* reads a PDF, extract_text() normalises each page, chunk_text() cuts     *)
(* the pages into overlapping word windows and embed_and_store() upserts   *)
(* the chunks into a ChromaDB collection in batches of 128.                *)
(*                                                                         *)
(* A text is a sequence of tokens.  A token is a triple of integers: a     *)
(* whitespace character is <<0, 0, k>> and the j-th word of page p of      *)
(* document content d is <<d, p, j>> with d, p, j >= 1.                     *)
(***************************************************************************)
EXTENDS Integers, Sequences, FiniteSets, TLC

\* ------------------------------------------------------------------ bounds

\* Pages of a document, words of a page.
MaxPages == 2
MaxWords == 4
\* --chunk-size and --overlap are drawn from -1 .. MaxParam.
MaxParam == 3
\* Iterations a non-terminating while loop of chunk_text is followed for
\* beyond the number of words of the document.
MaxSpin == 2

\* The number of times the operator changes the file or the command line
\* between two runs.
MaxChanges == 2

\* ------------------------------------------------------- program constants

\* batch = 128
BATCH == 128

\* --chunk-size default, --overlap default
DEFAULT_CHUNK_SIZE == 512
DEFAULT_OVERLAP == 128

\* ------------------------------------------------------------ Python core

PyMin(a, b) == IF a <= b THEN a ELSE b

PyMax(a, b) == IF a >= b THEN a ELSE b

\* The index a slice bound k denotes in a list of length n: negative bounds
\* count from the end, and the result is clamped to 0 .. n.
PySliceIndex(k, n) == IF k < 0 THEN PyMax(k + n, 0) ELSE PyMin(k, n)

\* s[a:b] of a Python list s (0-based, half open).
PySlice(s, a, b) ==
  LET lo == PySliceIndex(a, Len(s))
      hi == PySliceIndex(b, Len(s))
  IN  IF lo >= hi THEN <<>> ELSE SubSeq(s, lo + 1, hi)

DigitChar == <<"0", "1", "2", "3", "4", "5", "6", "7", "8", "9">>

\* str(n) of a natural number, as its sequence of decimal digits.
RECURSIVE PyStr(_)
PyStr(n) ==
  IF n < 10 THEN <<DigitChar[n + 1]>>
  ELSE PyStr(n \div 10) \o <<DigitChar[(n % 10) + 1]>>

\* ------------------------------------------------------------------ texts

SP == <<0, 0, 0>>
NL == <<0, 0, 1>>

IsSpace(t) == t[1] = 0

Word(d, p, j) == <<d, p, j>>

\* What page.extract_text() returns for page p (1-based) holding n words of
\* document content d.  Odd pages put " \n" before every word and end with
\* a newline; even pages put one space after every word.  A page without
\* words is all whitespace (odd) or the empty string (even).
RawText(d, p, n) ==
  IF p % 2 = 1
  THEN [k \in 1..(3 * n + 1) |->
          IF k = 3 * n + 1 THEN NL
          ELSE IF k % 3 = 1 THEN SP
          ELSE IF k % 3 = 2 THEN NL
          ELSE Word(d, p, k \div 3)]
  ELSE [k \in 1..(2 * n) |->
          IF k % 2 = 1 THEN Word(d, p, (k + 1) \div 2) ELSE SP]

\* re.sub(r"\s+", " ", text): every maximal run of whitespace becomes one
\* space.
CollapseSpace(text) ==
  LET idx == [k \in 1..Len(text) |-> k]
      keep(k) == \/ ~IsSpace(text[k])
                 \/ k = 1
                 \/ ~IsSpace(text[k - 1])
      kept == SelectSeq(idx, keep)
  IN  [k \in 1..Len(kept) |->
         IF IsSpace(text[kept[k]]) THEN SP ELSE text[kept[k]]]

\* str.strip() of a text whose whitespace runs are already single spaces.
Strip(text) ==
  LET n == Len(text)
      lo == IF n > 0 /\ IsSpace(text[1]) THEN 2 ELSE 1
      hi == IF n > 0 /\ IsSpace(text[n]) THEN n - 1 ELSE n
  IN  IF lo > hi THEN <<>> ELSE SubSeq(text, lo, hi)

\* re.sub(r"\s+", " ", text).strip()
Normalize(text) == Strip(CollapseSpace(text))

\* str.split(): the maximal runs of non-whitespace.  A word is one token.
Split(text) == SelectSeq(text, LAMBDA t : ~IsSpace(t))

\* " ".join(words)
Join(words) ==
  IF Len(words) = 0 THEN <<>>
  ELSE [k \in 1..(2 * Len(words) - 1) |->
          IF k % 2 = 1 THEN words[(k + 1) \div 2] ELSE SP]

\* ------------------------------------------------------------ extract_text

\* Mutant of ExtractText: the pages kept are numbered 1, 2, ... anew.
ExtractText_Renumber(doc) ==
  LET n == Len(doc.sizes)
      idx == [k \in 1..n |-> k]
      text(k) == Normalize(RawText(doc.d, k, doc.sizes[k]))
      full == SelectSeq(idx, LAMBDA k : text(k) # <<>>)
  IN  [k \in 1..Len(full) |-> [page |-> k, text |-> text(full[k])]]

\* The pages extract_text returns for a document: page numbers are the raw
\* 1-based positions, pages whose normalised text is empty are left out.
ExtractText(doc) ==
  LET n == Len(doc.sizes)
      idx == [k \in 1..n |-> k]
      text(k) == Normalize(RawText(doc.d, k, doc.sizes[k]))
      full == SelectSeq(idx, LAMBDA k : text(k) # <<>>)
  IN  [k \in 1..Len(full) |-> [page |-> full[k], text |-> text(full[k])]]

\* -------------------------------------------------------------- chunk_text

\* Mutant of ChunkId: the "_c" between the two numbers is left out.
ChunkId_NoSeparator(page_num, chunk_idx) ==
  <<"p">> \o PyStr(page_num) \o PyStr(chunk_idx)

\* f"p{page_num}_c{chunk_idx}"
ChunkId(page_num, chunk_idx) ==
  <<"p">> \o PyStr(page_num) \o <<"_", "c">> \o PyStr(chunk_idx)

\* Mutant of Chunk: the text lacks the last word of the window.
Chunk_DropsLastWord(page_num, chunk_idx, words, start, end) ==
  [chunk_id    |-> ChunkId(page_num, chunk_idx),
   text        |-> Join(PySlice(words, start, end - 1)),
   page        |-> page_num,
   chunk_index |-> chunk_idx,
   word_start  |-> start,
   word_end    |-> end]

\* The dict appended by one iteration of the while loop.
Chunk(page_num, chunk_idx, words, start, end) ==
  [chunk_id    |-> ChunkId(page_num, chunk_idx),
   text        |-> Join(PySlice(words, start, end)),
   page        |-> page_num,
   chunk_index |-> chunk_idx,
   word_start  |-> start,
   word_end    |-> end]

\* Mutant of WindowEnd: the window takes one word too many.
WindowEnd_Inclusive(start, size, n) == PyMin(start + size + 1, n)

\* Mutant of WindowEnd: the end is not clamped to the page.
WindowEnd_NoClamp(start, size, n) == start + size

\* end = min(start + chunk_size, len(words))
WindowEnd(start, size, n) == PyMin(start + size, n)

\* Mutant of PageDone: the loop never breaks at the end of the page.
PageDone_Never(end, n) == FALSE

\* if end == len(words): break
PageDone(end, n) == end = n

\* Mutant of NextStart: the overlap is added to the stride.
NextStart_Plus(start, size, ovl) == start + (size + ovl)

\* Mutant of NextStart: the window slides by its full width.
NextStart_NoOverlap(start, size, ovl) == start + size

\* Mutant of NextStart: the window slides by overlap words.
NextStart_ByOverlap(start, size, ovl) == start + ovl

\* Mutant of NextStart: the window does not move.
NextStart_Stay(start, size, ovl) == start

\* Mutant of NextStart: the window moves by one word at least.
NextStart_AtLeastOne(start, size, ovl) == start + PyMax(1, size - ovl)

\* start += chunk_size - overlap
NextStart(start, size, ovl) == start + (size - ovl)

\* chunk_idx += 1
NextIndex(chunk_idx) == chunk_idx + 1

\* --------------------------------------------------------- embed_and_store

\* The embedding function of the collection: one vector per text, decided
\* by the text alone.
Embed(text) == <<"vec", text>>

\* Mutant of Metadata: word_start and word_end are exchanged.
Metadata_SwappedRange(c, source_name) ==
  [page        |-> c.page,
   chunk_index |-> c.chunk_index,
   word_start  |-> c.word_end,
   word_end    |-> c.word_start,
   source      |-> source_name]

\* The metadata dict embed_and_store builds for a chunk.
Metadata(c, source_name) ==
  [page        |-> c.page,
   chunk_index |-> c.chunk_index,
   word_start  |-> c.word_start,
   word_end    |-> c.word_end,
   source      |-> source_name]

\* The three parallel lists, as one list of (id, document, metadata).
Records(chunks, source_name) ==
  [k \in 1..Len(chunks) |->
     [id       |-> chunks[k].chunk_id,
      document |-> chunks[k].text,
      metadata |-> Metadata(chunks[k], source_name)]]

\* Mutant of BatchOf: the slice stops one record early.
BatchOf_Short(records, i) == PySlice(records, i, i + BATCH - 1)

\* ids[i : i + batch], documents[i : i + batch], metadatas[i : i + batch]
BatchOf(records, i) == PySlice(records, i, i + BATCH)

\* One record of the collection.
Stored(r) ==
  [id        |-> r.id,
   embedding |-> Embed(r.document),
   document  |-> r.document,
   metadata  |-> r.metadata]

\* Mutant of Upsert: a record whose id the collection holds is left as it
\* is, the others are added.
Upsert_KeepExisting(coll, batch) ==
  LET held == {coll[j].id : j \in 1..Len(coll)}
      new == SelectSeq(batch, LAMBDA r : r.id \notin held)
  IN  coll \o [k \in 1..Len(new) |-> Stored(new[k])]

\* Mutant of Upsert: the collection is replaced by the batch.
Upsert_Reset(coll, batch) == [k \in 1..Len(batch) |-> Stored(batch[k])]

\* Mutant of Upsert: collection.add without the check for existing ids.
Upsert_Add(coll, batch) == coll \o [k \in 1..Len(batch) |-> Stored(batch[k])]

\* collection.upsert(ids=..., documents=..., metadatas=...) of a batch whose
\* ids are pairwise different: a record whose id is in the batch is
\* replaced in place, the other records of the batch are added.
Upsert(coll, batch) ==
  LET old == {k \in 1..Len(coll) : \E b \in 1..Len(batch) : batch[b].id = coll[k].id}
      rec(id) == batch[CHOOSE b \in 1..Len(batch) : batch[b].id = id]
      new == SelectSeq(batch, LAMBDA r : \A k \in 1..Len(coll) : coll[k].id # r.id)
  IN  [k \in 1..Len(coll) |-> IF k \in old THEN Stored(rec(coll[k].id)) ELSE coll[k]]
      \o [k \in 1..Len(new) |-> Stored(new[k])]

\* ------------------------------------------------------------------ state

VARIABLES
  fs,          \* the PDF at the path given: does it exist, can pypdf parse it, its content
  chunk_size,  \* args.chunk_size
  overlap,     \* args.overlap
  pc,          \* where main() is
  pages,       \* main: pages
  chunks,      \* chunk_text: chunks (then main: chunks)
  chunk_idx,   \* chunk_text: chunk_idx
  page_i,      \* chunk_text: how many pages the for loop has taken
  start,       \* chunk_text: start
  i,           \* embed_and_store: i of the batch loop
  store,       \* the records of the collection in the persistent store
  opened,      \* the records the collection held when embed_and_store opened it
  embedded,    \* how many texts this run has had embedded and written
  stdout,      \* what embed_and_store has printed in this run
  exit_code,   \* -1 while the process runs, then its exit status
  err,         \* what ended the process, "" for a normal return
  prev_exit,   \* the exit status of the run before this one, -1 for the first run
  changes,     \* how many times the command line or the PDF was changed between runs
  db,          \* server.py: the SQLite database file at DB_PATH
  call,        \* server.py: the last tool call, as <<tool, arguments...>>
  executed,    \* server.py: the statement the last tool call passed to the database
  reply,       \* server.py: what the last tool call returned
  dashboard_file,     \* server.py: the content of DASHBOARD_FILE, or that there is none
  streamlit_process,  \* server.py: the global, 0 for None, else the pid of the Popen object
  alive,       \* the pids of the Streamlit processes that have not exited
  spawned,     \* how many Streamlit processes the server has started
  runs,        \* two ingestion commands on one store: each one's chunks, source, i, pc
  writer       \* for each id of the store, the command that upserted it last

\* The state of the tool server of src/server.py.
server == <<db, call, executed, reply>>

\* The state of the ingestion command and of its store.
ingest == <<fs, chunk_size, overlap, pc, pages, chunks, chunk_idx, page_i, start,
            i, store, opened, embedded, stdout, exit_code, err, prev_exit, changes>>

\* The dashboard file and the Streamlit process of src/server.py.
dashboard == <<dashboard_file, streamlit_process, alive, spawned>>

\* Two ingestion commands that run at the same time.
pair == <<runs, writer>>

vars == <<ingest, server, dashboard, pair>>

\* The documents, by the number of words of each page.
RECURSIVE SeqsUpTo(_, _)
SeqsUpTo(S, n) ==
  IF n = 0 THEN {<<>>}
  ELSE LET shorter == SeqsUpTo(S, n - 1)
       IN  shorter \cup {Append(s, x) : s \in {t \in shorter : Len(t) = n - 1}, x \in S}

Document(sizes) == [name |-> "a.pdf", d |-> 1, sizes |-> sizes]

Params == (-1)..MaxParam

\* The small documents: a first page of any number of words up to
\* MaxWords, each later page without a word, of one word or of MaxWords
\* words.
SmallDocuments ==
  {s \in SeqsUpTo(0..MaxWords, MaxPages) : \A k \in 2..Len(s) : s[k] \in {0, 1, MaxWords}}

\* The command lines followed in full: every small document with every
\* small --chunk-size and --overlap.
SmallCases ==
  [sizes : SmallDocuments, chunk_size : Params, overlap : Params]

Case(sizes, size, ovl) == [sizes |-> sizes, chunk_size |-> size, overlap |-> ovl]

\* The command lines of the documented examples, with the default
\* --chunk-size and --overlap, and single pages that give 127, 128, 129, 256
\* and 257 chunks, the counts on both sides of a batch edge.
\* Two documents with pages without text between pages with text are added.
NamedCases ==
  {Case(<<1024>>, DEFAULT_CHUNK_SIZE, DEFAULT_OVERLAP),
   Case(<<10>>, DEFAULT_CHUNK_SIZE, DEFAULT_OVERLAP),
   Case(<<3, 0, 2>>, 2, 1),
   Case(<<2, 0, 0, 4>>, 3, 1)}
  \cup {Case(<<n + 1>>, 2, 1) :
          n \in {BATCH - 1, BATCH, BATCH + 1, 2 * BATCH, 2 * BATCH + 1}}

\* No database file at DB_PATH, no tool called yet.
NoDatabase == [exists |-> FALSE, tables |-> {}, rows |-> <<>>, user_version |-> 0]

\* One line of dashboard code: what it starts with ("import", "from" or
\* something else), whether it is indented, and the identifier after the
\* keyword.
Line(kw, indented, name) == [kw |-> kw, indented |-> indented, name |-> name]

\* The first lines of the dashboard.py the repository ships.
RepoCode ==
  <<Line("import", FALSE, "streamlit"),
    Line("import", FALSE, "sqlite3"),
    Line("import", FALSE, "pandas"),
    Line("from", FALSE, "datetime"),
    Line("other", FALSE, "st")>>

\* The dashboard.py the repository ships next to server.py.
RepoDashboard == [exists |-> TRUE, code |-> RepoCode]

\* The server has started no Streamlit process.
DashboardIdle ==
  /\ dashboard_file = RepoDashboard
  /\ streamlit_process = 0
  /\ alive = {}
  /\ spawned = 0

\* No second ingestion command runs.
PairIdle ==
  /\ runs = <<>>
  /\ writer = <<>>

ServerIdle ==
  /\ db = NoDatabase
  /\ call = <<>>
  /\ executed = <<>>
  /\ reply = <<>>

\* The locals of a process that has just parsed its arguments.
Fresh ==
  /\ pc = "main"
  /\ pages = <<>>
  /\ chunks = <<>>
  /\ chunk_idx = 0
  /\ page_i = 0
  /\ start = 0
  /\ i = 0
  /\ embedded = 0
  /\ stdout = <<>>
  /\ exit_code = -1
  /\ err = ""

Init ==
  /\ \E c \in SmallCases \cup NamedCases, exists \in BOOLEAN, readable \in BOOLEAN :
       /\ exists \/ readable
       /\ fs = [exists |-> exists, readable |-> readable, doc |-> Document(c.sizes)]
       /\ chunk_size = c.chunk_size
       /\ overlap = c.overlap
  /\ Fresh
  /\ store = <<>>
  /\ opened = <<>>
  /\ prev_exit = -1
  /\ changes = 0
  /\ ServerIdle
  /\ DashboardIdle
  /\ PairIdle

\* ------------------------------------------------------------------- main

\* sys.exit(msg) and an uncaught exception both end the process with status 1.
Exit(code, why) ==
  /\ pc' = "exited"
  /\ exit_code' = code
  /\ err' = why

\* if not pdf_path.exists(): sys.exit("File not found")
MainNotFound ==
  /\ pc = "main"
  /\ ~fs.exists
  /\ Exit(1, "FileNotFound")
  /\ UNCHANGED <<fs, chunk_size, overlap, pages, chunks, chunk_idx, page_i, start,
                 i, store, opened, embedded, stdout, prev_exit>>
  /\ UNCHANGED <<changes, server, dashboard, pair>>

\* pages = extract_text(pdf_path)
MainExtract ==
  /\ pc = "main"
  /\ fs.exists
  /\ fs.readable
  /\ pages' = ExtractText(fs.doc)
  /\ pc' = "chunk_for"
  /\ UNCHANGED <<fs, chunk_size, overlap, chunks, chunk_idx, page_i, start,
                 i, store, opened, embedded, stdout, exit_code, err, prev_exit>>
  /\ UNCHANGED <<changes, server, dashboard, pair>>

\* Mutant of MainExtractFail: the pages read before the error are returned.
MainExtractFail_Partial ==
  /\ pc = "main"
  /\ fs.exists
  /\ ~fs.readable
  /\ pages' = SelectSeq(ExtractText(fs.doc), LAMBDA p : p.page = 1)
  /\ pc' = "chunk_for"
  /\ UNCHANGED <<fs, chunk_size, overlap, chunks, chunk_idx, page_i, start,
                 i, store, opened, embedded, stdout, exit_code, err, prev_exit>>
  /\ UNCHANGED <<changes, server, dashboard, pair>>

\* PdfReader(str(pdf_path)) raises on a file it cannot parse; main does not
\* catch it.
MainExtractFail ==
  /\ pc = "main"
  /\ fs.exists
  /\ ~fs.readable
  /\ Exit(1, "PdfReadError")
  /\ UNCHANGED <<fs, chunk_size, overlap, pages, chunks, chunk_idx, page_i, start,
                 i, store, opened, embedded, stdout, prev_exit>>
  /\ UNCHANGED <<changes, server, dashboard, pair>>

\* ------------------------------------------------------------- chunk_text

\* words = page_info["text"].split() of the page the for loop is on.
Words == Split(pages[page_i].text)

\* How many chunks the while loop has appended for the page it is on.
OnPage == Cardinality({k \in 1..Len(chunks) : chunks[k].page = pages[page_i].page})

\* Mutant of ChunkForPage: chunk_idx = 0 is inside the for loop.
ChunkForPage_ResetIndex ==
  /\ pc = "chunk_for"
  /\ page_i < Len(pages)
  /\ page_i' = page_i + 1
  /\ start' = 0
  /\ chunk_idx' = 0
  /\ pc' = "chunk_while"
  /\ UNCHANGED <<fs, chunk_size, overlap, pages, chunks,
                 i, store, opened, embedded, stdout, exit_code, err, prev_exit>>
  /\ UNCHANGED <<changes, server, dashboard, pair>>

\* for page_info in pages: the next page; start = 0
ChunkForPage ==
  /\ pc = "chunk_for"
  /\ page_i < Len(pages)
  /\ page_i' = page_i + 1
  /\ start' = 0
  /\ pc' = "chunk_while"
  /\ UNCHANGED <<fs, chunk_size, overlap, pages, chunks, chunk_idx,
                 i, store, opened, embedded, stdout, exit_code, err, prev_exit>>
  /\ UNCHANGED <<changes, server, dashboard, pair>>

\* One iteration of the while loop: a chunk is appended, then the loop
\* breaks at the end of the page or slides the window.
ChunkWhileBody ==
  /\ pc = "chunk_while"
  /\ start < Len(Words)
  /\ OnPage < Len(Words) + MaxSpin
  /\ LET end == WindowEnd(start, chunk_size, Len(Words))
     IN  /\ chunks' = Append(chunks,
                        Chunk(pages[page_i].page, chunk_idx, Words, start, end))
         /\ chunk_idx' = NextIndex(chunk_idx)
         /\ IF PageDone(end, Len(Words))
            THEN pc' = "chunk_for" /\ start' = start
            ELSE pc' = pc /\ start' = NextStart(start, chunk_size, overlap)
  /\ UNCHANGED <<fs, chunk_size, overlap, pages, page_i,
                 i, store, opened, embedded, stdout, exit_code, err, prev_exit>>
  /\ UNCHANGED <<changes, server, dashboard, pair>>

\* while start < len(words) is false
ChunkWhileExit ==
  /\ pc = "chunk_while"
  /\ ~(start < Len(Words))
  /\ pc' = "chunk_for"
  /\ UNCHANGED <<fs, chunk_size, overlap, pages, chunks, chunk_idx, page_i, start,
                 i, store, opened, embedded, stdout, exit_code, err, prev_exit>>
  /\ UNCHANGED <<changes, server, dashboard, pair>>

\* Mutant of ChunkReturn: main goes on to embed_and_store before the loop
\* over the pages has ended.
ChunkReturn_Early ==
  /\ pc = "chunk_for"
  /\ opened' = store
  /\ i' = 0
  /\ pc' = "upsert"
  /\ UNCHANGED <<fs, chunk_size, overlap, pages, chunks, chunk_idx, page_i, start,
                 store, embedded, stdout, exit_code, err, prev_exit>>
  /\ UNCHANGED <<changes, server, dashboard, pair>>

\* Mutant of ChunkReturn: the collection is deleted and created anew.
ChunkReturn_Recreate ==
  /\ pc = "chunk_for"
  /\ page_i = Len(pages)
  /\ store' = <<>>
  /\ opened' = <<>>
  /\ i' = 0
  /\ pc' = "upsert"
  /\ UNCHANGED <<fs, chunk_size, overlap, pages, chunks, chunk_idx, page_i, start,
                 embedded, stdout, exit_code, err, prev_exit>>
  /\ UNCHANGED <<changes, server, dashboard, pair>>

\* return chunks, and embed_and_store up to its batch loop: the collection
\* is opened (created when it does not exist).
ChunkReturn ==
  /\ pc = "chunk_for"
  /\ page_i = Len(pages)
  /\ opened' = store
  /\ i' = 0
  /\ pc' = "upsert"
  /\ UNCHANGED <<fs, chunk_size, overlap, pages, chunks, chunk_idx, page_i, start,
                 store, embedded, stdout, exit_code, err, prev_exit>>
  /\ UNCHANGED <<changes, server, dashboard, pair>>

\* -------------------------------------------------------- embed_and_store

\* source_name = pdf_path.name
SourceName == fs.doc.name

\* One iteration of for i in range(0, len(chunks), batch).
UpsertBatch ==
  /\ pc = "upsert"
  /\ i < Len(chunks)
  /\ LET batch == BatchOf(Records(chunks, SourceName), i)
     IN  /\ store' = Upsert(store, batch)
         /\ embedded' = embedded + Len(batch)
         /\ stdout' = Append(stdout,
                        <<"Upserted", i + 1, PyMin(i + BATCH, Len(chunks)), Len(chunks)>>)
  /\ i' = i + BATCH
  /\ UNCHANGED <<fs, chunk_size, overlap, pc, pages, chunks, chunk_idx, page_i, start,
                 opened, exit_code, err, prev_exit>>
  /\ UNCHANGED <<changes, server, dashboard, pair>>

\* Mutant of UpsertFail: the failure undoes the batches written before it.
UpsertFail_Rollback ==
  /\ pc = "upsert"
  /\ i < Len(chunks)
  /\ Exit(1, "UpsertError")
  /\ store' = opened
  /\ UNCHANGED <<fs, chunk_size, overlap, pages, chunks, chunk_idx, page_i, start,
                 i, opened, embedded, stdout, prev_exit>>
  /\ UNCHANGED <<changes, server, dashboard, pair>>

\* The embedding function or the store raises on a batch: nothing of the
\* batch is written and the exception ends the process.
UpsertFail ==
  /\ pc = "upsert"
  /\ i < Len(chunks)
  /\ Exit(1, "UpsertError")
  /\ UNCHANGED <<fs, chunk_size, overlap, pages, chunks, chunk_idx, page_i, start,
                 i, store, opened, embedded, stdout, prev_exit>>
  /\ UNCHANGED <<changes, server, dashboard, pair>>

\* The process is terminated (SIGKILL) between two batches of the loop:
\* what the finished batches wrote stays in the store.  A termination
\* before embed_and_store leaves the store as one before the first batch.
Terminate ==
  /\ pc = "upsert"
  /\ Exit(137, "Killed")
  /\ UNCHANGED <<fs, chunk_size, overlap, pages, chunks, chunk_idx, page_i, start,
                 i, store, opened, embedded, stdout, prev_exit>>
  /\ UNCHANGED <<changes, server, dashboard, pair>>

\* The loop is over: stats are printed and returned, main returns.
EmbedReturn ==
  /\ pc = "upsert"
  /\ ~(i < Len(chunks))
  /\ stdout' = Append(stdout, <<"Done", Len(chunks)>>)
  /\ Exit(0, "")
  /\ UNCHANGED <<fs, chunk_size, overlap, pages, chunks, chunk_idx, page_i, start,
                 i, store, opened, embedded, prev_exit>>
  /\ UNCHANGED <<changes, server, dashboard, pair>>

\* ------------------------------------------------------------ the operator

\* The same command line is run again on the unchanged file.
Rerun ==
  /\ pc = "exited"
  /\ pc' = "main"
  /\ pages' = <<>>
  /\ chunks' = <<>>
  /\ chunk_idx' = 0
  /\ page_i' = 0
  /\ start' = 0
  /\ i' = 0
  /\ embedded' = 0
  /\ stdout' = <<>>
  /\ exit_code' = -1
  /\ err' = ""
  /\ prev_exit' = exit_code
  /\ UNCHANGED <<fs, chunk_size, overlap, store, opened>>
  /\ UNCHANGED <<changes, server, dashboard, pair>>

Next ==
  \/ MainNotFound
  \/ MainExtract
  \/ MainExtractFail
  \/ ChunkForPage
  \/ ChunkWhileBody
  \/ ChunkWhileExit
  \/ ChunkReturn
  \/ UpsertBatch
  \/ UpsertFail
  \/ Terminate
  \/ EmbedReturn
  \/ Rerun

Spec == Init /\ [][Next]_vars

\* The interpreter goes on to the next statement of main and chunk_text as
\* long as the process is not ended from outside: a step of extraction or
\* of chunking that stays possible is taken.
Progress ==
  /\ WF_vars(MainExtract)
  /\ WF_vars(ChunkForPage)
  /\ WF_vars(ChunkWhileBody)
  /\ WF_vars(ChunkWhileExit)
  /\ WF_vars(ChunkReturn)

\* The documents followed under fairness: one page of any number of words
\* up to MaxWords, and such a page followed by a page of one word.
FairDocuments ==
  {<<n>> : n \in 0..MaxWords} \cup {<<n, 1>> : n \in 1..MaxWords}

\* One run of the command on a small document that exists and can be
\* parsed, up to the call of embed_and_store.
InitFair ==
  /\ \E c \in [sizes : FairDocuments, chunk_size : Params, overlap : Params] :
       /\ fs = [exists |-> TRUE, readable |-> TRUE, doc |-> Document(c.sizes)]
       /\ chunk_size = c.chunk_size
       /\ overlap = c.overlap
  /\ Fresh
  /\ store = <<>>
  /\ opened = <<>>
  /\ prev_exit = -1
  /\ changes = 0
  /\ ServerIdle
  /\ DashboardIdle
  /\ PairIdle

NextFair ==
  \/ MainExtract
  \/ ChunkForPage
  \/ ChunkWhileBody
  \/ ChunkWhileExit
  \/ ChunkReturn

SpecFair == InitFair /\ [][NextFair]_vars /\ Progress

\* ------------------------------------------------- runs on a changing input

\* The command lines the operator goes through on one store: a document, the
\* same document after it shrank, the document with another --chunk-size,
\* a second document, and a --chunk-size of 0, which main accepts.
RunCases ==
  {[doc |-> [name |-> "a.pdf", d |-> 1, sizes |-> <<4>>], chunk_size |-> 2, overlap |-> 1],
   [doc |-> [name |-> "a.pdf", d |-> 2, sizes |-> <<2>>], chunk_size |-> 2, overlap |-> 1],
   [doc |-> [name |-> "a.pdf", d |-> 1, sizes |-> <<4>>], chunk_size |-> 3, overlap |-> 1],
   [doc |-> [name |-> "b.pdf", d |-> 3, sizes |-> <<1, 3>>], chunk_size |-> 2, overlap |-> 1],
   [doc |-> [name |-> "a.pdf", d |-> 2, sizes |-> <<2>>], chunk_size |-> 0, overlap |-> -1]}

InitRuns ==
  /\ \E c \in RunCases :
       /\ fs = [exists |-> TRUE, readable |-> TRUE, doc |-> c.doc]
       /\ chunk_size = c.chunk_size
       /\ overlap = c.overlap
  /\ Fresh
  /\ store = <<>>
  /\ opened = <<>>
  /\ prev_exit = -1
  /\ changes = 0
  /\ ServerIdle
  /\ DashboardIdle
  /\ PairIdle

\* The command is run on the same store with another file or other
\* parameters.
RunOther ==
  /\ pc = "exited"
  /\ changes < MaxChanges
  /\ \E c \in RunCases, exists \in BOOLEAN, readable \in BOOLEAN :
       /\ exists \/ readable
       /\ fs' = [exists |-> exists, readable |-> readable, doc |-> c.doc]
       /\ chunk_size' = c.chunk_size
       /\ overlap' = c.overlap
       /\ <<fs', chunk_size', overlap'>> # <<fs, chunk_size, overlap>>
  /\ changes' = changes + 1
  /\ pc' = "main"
  /\ pages' = <<>>
  /\ chunks' = <<>>
  /\ chunk_idx' = 0
  /\ page_i' = 0
  /\ start' = 0
  /\ i' = 0
  /\ embedded' = 0
  /\ stdout' = <<>>
  /\ exit_code' = -1
  /\ err' = ""
  /\ prev_exit' = exit_code
  /\ UNCHANGED <<store, opened>>
  /\ UNCHANGED <<server, dashboard, pair>>

NextRuns ==
  \/ Next
  \/ RunOther

SpecRuns == InitRuns /\ [][NextRuns]_vars

\* ------------------------------------------- two commands on one collection

\* chunk_text on one page from the position from on: the chunks the while
\* loop appends, for a stride that ends the loop.
RECURSIVE ChunkPage(_, _, _, _, _, _)
ChunkPage(page_num, words, size, ovl, from, idx) ==
  IF ~(from < Len(words)) THEN <<>>
  ELSE LET end == WindowEnd(from, size, Len(words))
           c == Chunk(page_num, idx, words, from, end)
       IN  IF PageDone(end, Len(words)) THEN <<c>>
           ELSE <<c>> \o ChunkPage(page_num, words, size, ovl,
                                   NextStart(from, size, ovl), NextIndex(idx))

\* The for loop of chunk_text from page k on, with chunk_idx as it stands.
RECURSIVE ChunkPagesFrom(_, _, _, _, _)
ChunkPagesFrom(pgs, k, size, ovl, idx) ==
  IF k > Len(pgs) THEN <<>>
  ELSE LET made == ChunkPage(pgs[k].page, Split(pgs[k].text), size, ovl, 0, idx)
           after == IF made = <<>> THEN idx
                    ELSE NextIndex(made[Len(made)].chunk_index)
       IN  made \o ChunkPagesFrom(pgs, k + 1, size, ovl, after)

\* chunk_text(pages, chunk_size, overlap) for overlap < chunk_size.
ChunkText(pgs, size, ovl) == ChunkPagesFrom(pgs, 1, size, ovl, 0)

\* The commands that are run in pairs: two documents of three pages of 44
\* words, which give 129 chunks (two batches) with the same ids, a document
\* of 129 chunks in four pages that shares one id with them, and a document
\* of one batch.
PairCases ==
  {[doc |-> [name |-> "a.pdf", d |-> 1, sizes |-> <<44, 44, 44>>], chunk_size |-> 2, overlap |-> 1],
   [doc |-> [name |-> "b.pdf", d |-> 3, sizes |-> <<44, 44, 44>>], chunk_size |-> 2, overlap |-> 1],
   [doc |-> [name |-> "b.pdf", d |-> 3, sizes |-> <<2, 44, 44, 43>>], chunk_size |-> 2, overlap |-> 1],
   [doc |-> [name |-> "a.pdf", d |-> 1, sizes |-> <<3>>], chunk_size |-> 2, overlap |-> 1]}

\* What the collection holds before the two commands: nothing, or the two
\* records of an earlier ingestion of a third document.
PairStores ==
  LET z == [name |-> "z.pdf", d |-> 2, sizes |-> <<0, 3>>]
      records == Records(ChunkText(ExtractText(z), 2, 1), z.name)
  IN  {<<>>, [k \in 1..Len(records) |-> Stored(records[k])]}

\* A command that has reached the batch loop of embed_and_store.
PairRun(c) ==
  [doc        |-> c.doc,
   chunk_size |-> c.chunk_size,
   overlap    |-> c.overlap,
   chunks     |-> ChunkText(ExtractText(c.doc), c.chunk_size, c.overlap),
   i          |-> 0,
   pc         |-> "upsert"]

\* Two commands are in embed_and_store; the variables of the single
\* command stand still, opened is the collection before the two.
InitPair ==
  /\ fs = [exists |-> FALSE, readable |-> FALSE, doc |-> Document(<<>>)]
  /\ chunk_size = DEFAULT_CHUNK_SIZE
  /\ overlap = DEFAULT_OVERLAP
  /\ Fresh
  /\ store \in PairStores
  /\ opened = store
  /\ prev_exit = -1
  /\ changes = 0
  /\ ServerIdle
  /\ DashboardIdle
  /\ \E c1 \in PairCases, c2 \in PairCases : runs = <<PairRun(c1), PairRun(c2)>>
  /\ writer = <<>>

\* The ids of a batch.
BatchIds(batch) == {batch[k].id : k \in 1..Len(batch)}

\* Mutant of PairUpsert: a record another command has written stays.
PairUpsert_FirstWins(p) ==
  /\ runs[p].pc = "upsert"
  /\ runs[p].i < Len(runs[p].chunks)
  /\ LET batch == BatchOf(Records(runs[p].chunks, runs[p].doc.name), runs[p].i)
     IN  /\ store' = Upsert_KeepExisting(store, batch)
         /\ writer' = [id \in DOMAIN writer \cup BatchIds(batch) |->
                         IF id \in BatchIds(batch) THEN p ELSE writer[id]]
  /\ runs' = [runs EXCEPT ![p].i = @ + BATCH]
  /\ UNCHANGED <<fs, chunk_size, overlap, pc, pages, chunks, chunk_idx, page_i, start,
                 i, opened, embedded, stdout, exit_code, err, prev_exit>>
  /\ UNCHANGED <<changes, server, dashboard>>

\* One iteration of the batch loop of command p: the store applies the
\* upsert of the batch as one step.
PairUpsert(p) ==
  /\ runs[p].pc = "upsert"
  /\ runs[p].i < Len(runs[p].chunks)
  /\ LET batch == BatchOf(Records(runs[p].chunks, runs[p].doc.name), runs[p].i)
     IN  /\ store' = Upsert(store, batch)
         /\ writer' = [id \in DOMAIN writer \cup BatchIds(batch) |->
                         IF id \in BatchIds(batch) THEN p ELSE writer[id]]
  /\ runs' = [runs EXCEPT ![p].i = @ + BATCH]
  /\ UNCHANGED <<fs, chunk_size, overlap, pc, pages, chunks, chunk_idx, page_i, start,
                 i, opened, embedded, stdout, exit_code, err, prev_exit>>
  /\ UNCHANGED <<changes, server, dashboard>>

\* The batch loop of command p is over and the command returns.
PairReturn(p) ==
  /\ runs[p].pc = "upsert"
  /\ ~(runs[p].i < Len(runs[p].chunks))
  /\ runs' = [runs EXCEPT ![p].pc = "exited"]
  /\ UNCHANGED <<ingest, server, dashboard, writer>>

NextPair ==
  \/ \E p \in 1..2 : PairUpsert(p)
  \/ \E p \in 1..2 : PairReturn(p)

SpecPair == InitPair /\ [][NextPair]_vars

\* ---------------------------------------------------- server.py: SQL tools

\* A string of SQL is a sequence of lexemes: WS is a run of whitespace,
\* COMMENT a comment /* ... */, every other lexeme a word or a sign.  After
\* the first lexeme that is not WS, lexemes are separated as SQL needs.
WS == " "
COMMENT == "/*c*/"

\* re.IGNORECASE and SQLite's own case folding of keywords.
SqlUpper(w) ==
  CASE w = "select" -> "SELECT"
    [] w = "from"   -> "FROM"
    [] w = "drop"   -> "DROP"
    [] w = "table"  -> "TABLE"
    [] w = "Delete" -> "DELETE"
    [] w = "pragma" -> "PRAGMA"
    [] OTHER        -> w

\* str.strip()
StripSql(sql) ==
  LET idx == {k \in 1..Len(sql) : sql[k] # WS}
  IN  IF idx = {} THEN <<>>
      ELSE SubSeq(sql, CHOOSE k \in idx : \A l \in idx : k <= l,
                       CHOOSE k \in idx : \A l \in idx : l <= k)

\* The words of BLOCKED_SQL.
BLOCKED_SQL ==
  {"DROP", "DELETE", "TRUNCATE", "ALTER", "INSERT", "UPDATE", "CREATE", "REPLACE",
   "ATTACH", "DETACH"}

\* BLOCKED_SQL.match(text): ^\s* takes the whitespace at the head, then one
\* of the words must follow, as a whole word (\b).
BlockedMatch(text) ==
  LET idx == {k \in 1..Len(text) : text[k] # WS}
  IN  /\ idx # {}
      /\ SqlUpper(text[CHOOSE k \in idx : \A l \in idx : k <= l]) \in BLOCKED_SQL

\* _is_read_only
IsReadOnly(sql) == ~BlockedMatch(StripSql(sql))

\* Python's $ matches before a newline that ends the string.
NL_CHAR == "\n"

\* The table names the tools are called with, and their characters.
TableArgs == {"t", "u", "v", "t\n", "t;x", ""}

Chars(name) ==
  CASE name = ""    -> <<>>
    [] name = "t\n" -> <<"t", NL_CHAR>>
    [] name = "t;x" -> <<"t", ";", "x">>
    [] OTHER        -> <<name>>

WordChars == {"t", "u", "v", "x", "1", "_"}

\* _valid_table_name: re.match(r"^[a-zA-Z0-9_]+$", name)
ValidTableName(name) ==
  LET cs == Chars(name)
      body == IF cs # <<>> /\ cs[Len(cs)] = NL_CHAR THEN SubSeq(cs, 1, Len(cs) - 1) ELSE cs
  IN  /\ body # <<>>
      /\ \A k \in 1..Len(body) : body[k] \in WordChars

\* The table SQLite looks up for a name in a statement: whitespace around
\* the name is not part of it.
Identifier(lexeme) == IF lexeme = "t\n" THEN "t" ELSE lexeme

\* What SQLite's tokenizer keeps of a statement: no whitespace, no comment,
\* keywords in one case.
Lexemes(sql) ==
  LET kept == SelectSeq(sql, LAMBDA w : w \notin {WS, COMMENT})
  IN  [k \in 1..Len(kept) |-> SqlUpper(kept[k])]

\* The statements of the grammar that are followed, "?" standing for the
\* name of a table, with what each does.
Grammar ==
  <<[pat |-> <<"SELECT", "*", "FROM", "?">>, kind |-> "read"],
    [pat |-> <<"SELECT", "*", "FROM", "?", "LIMIT", "?n">>, kind |-> "read"],
    [pat |-> <<"WITH", "x", "AS", "(", "SELECT", "1", ")", "SELECT", "*", "FROM", "?">>,
     kind |-> "read"],
    [pat |-> <<"WITH", "x", "AS", "(", "SELECT", "1", ")", "DELETE", "FROM", "?">>,
     kind |-> "dml"],
    [pat |-> <<"DELETE", "FROM", "?">>, kind |-> "dml"],
    [pat |-> <<"INSERT", "INTO", "?", "DEFAULT", "VALUES">>, kind |-> "dml"],
    [pat |-> <<"REPLACE", "INTO", "?", "DEFAULT", "VALUES">>, kind |-> "dml"],
    [pat |-> <<"UPDATE", "?", "SET", "c", "=", "1">>, kind |-> "dml"],
    [pat |-> <<"DROP", "TABLE", "?">>, kind |-> "drop"],
    [pat |-> <<"CREATE", "TABLE", "?", "(", "c", ")">>, kind |-> "create"],
    [pat |-> <<"ALTER", "TABLE", "?", "RENAME", "TO", "w">>, kind |-> "rename"],
    [pat |-> <<"ATTACH", "DATABASE", "'x.db'", "AS", "x">>, kind |-> "attach"],
    [pat |-> <<"DETACH", "DATABASE", "x">>, kind |-> "detach"],
    [pat |-> <<"PRAGMA", "table_info", "(", "?", ")">>, kind |-> "table_info"],
    [pat |-> <<"PRAGMA", "user_version">>, kind |-> "get_version"],
    [pat |-> <<"PRAGMA", "user_version", "=", "1">>, kind |-> "set_version"],
    [pat |-> <<"VACUUM">>, kind |-> "vacuum"]>>

Matches(lex, pat) ==
  /\ Len(lex) = Len(pat)
  /\ \A k \in 1..Len(pat) : pat[k] \in {"?", "?n"} \/ pat[k] = lex[k]

\* SQLite's parse of a statement: what it does and to which table.
Parse(sql) ==
  LET lex == Lexemes(sql)
      fit == {g \in 1..Len(Grammar) : Matches(lex, Grammar[g].pat)}
  IN  IF lex = <<>> THEN [kind |-> "empty", table |-> ""]
      ELSE IF fit = {} THEN [kind |-> "syntax", table |-> ""]
      ELSE LET g == Grammar[CHOOSE g \in fit : TRUE]
               at == {k \in 1..Len(g.pat) : g.pat[k] = "?"}
           IN  [kind  |-> g.kind,
                table |-> IF at = {} THEN "" ELSE Identifier(lex[CHOOSE k \in at : TRUE])]

WriteKinds == {"dml", "drop", "create", "rename", "set_version", "vacuum"}

\* The mode of the connection in the URI _get_conn opens.
OpenMode_ReadWrite == "rw"

\* sqlite3.connect(f"file:{DB_PATH}?mode=ro", uri=True)
OpenMode == "ro"

NoSuchTable == <<"OperationalError", "no such table">>
ReadOnlyDatabase == <<"OperationalError", "attempt to write a readonly database">>

\* What a write does to a database opened read-write.  The tools never call
\* commit: what INSERT, UPDATE, DELETE and REPLACE wrote is rolled back when
\* the connection is closed; the other statements are not in a transaction.
Written(d, st) ==
  CASE st.kind = "drop"   ->
         [d EXCEPT !.tables = @ \ {st.table},
                   !.rows = [t \in d.tables \ {st.table} |-> d.rows[t]]]
    [] st.kind = "create" ->
         [d EXCEPT !.tables = @ \cup {st.table},
                   !.rows = [t \in d.tables \cup {st.table} |->
                               IF t = st.table THEN 0 ELSE d.rows[t]]]
    [] st.kind = "rename" ->
         [d EXCEPT !.tables = (@ \ {st.table}) \cup {"w"},
                   !.rows = [t \in (d.tables \ {st.table}) \cup {"w"} |->
                               IF t = "w" THEN d.rows[st.table] ELSE d.rows[t]]]
    [] st.kind = "set_version" -> [d EXCEPT !.user_version = 1]
    [] OTHER -> d

\* conn.execute(sql) and fetchall() on a connection of the given mode: the
\* database after it, and the number of rows fetched or the exception.
\* limit is the bound parameter of LIMIT ?, -1 without one.
Execute(d, sql, mode, limit) ==
  LET st == Parse(sql)
      known == st.table \in d.tables
      fails(e) == [db |-> d, out |-> e]
      rows(n) == [db |-> d, out |-> <<"rows", n>>]
  IN  CASE st.kind = "empty"  -> rows(0)
        [] st.kind = "syntax" -> fails(<<"OperationalError", "syntax error">>)
        [] st.kind = "read"   ->
             IF ~known THEN fails(NoSuchTable)
             ELSE IF limit < 0 THEN rows(d.rows[st.table])
             ELSE rows(PyMin(d.rows[st.table], limit))
        [] st.kind = "table_info"  -> rows(IF known THEN 1 ELSE 0)
        [] st.kind = "get_version" -> rows(1)
        [] st.kind = "detach" -> fails(<<"OperationalError", "no such database: x">>)
        [] st.kind = "attach" ->
             IF mode = "ro" THEN fails(<<"OperationalError", "unable to open database: x.db">>)
             ELSE rows(0)
        [] st.kind \in {"dml", "drop", "rename"} /\ ~known -> fails(NoSuchTable)
        [] st.kind = "create" /\ known ->
             fails(<<"OperationalError", "table already exists">>)
        [] OTHER ->
             IF mode = "ro" THEN fails(ReadOnlyDatabase)
             ELSE [db |-> Written(d, st), out |-> <<"rows", 0>>]

\* The bounds of sample_table's limit and its default.
SAMPLE_MIN == 1
SAMPLE_MAX == 50
SAMPLE_DEFAULT == 5

\* A database of the given tables, each of n rows.
Database(S, n) ==
  [exists |-> TRUE, tables |-> S, rows |-> [t \in S |-> n], user_version |-> 0]

\* The databases at DB_PATH: none, one without a table, one table of no
\* row or of more rows than sample_table returns, two tables of two rows.
Databases ==
  {NoDatabase, Database({}, 0), Database({"t"}, 0), Database({"t"}, SAMPLE_MAX + 1),
   Database({"t", "u"}, 2)}

\* The strings query_database is called with: every statement of the
\* grammar on a table that exists and on one that does not, statements
\* SQLite does not parse, keywords in lower and mixed case; each as it is,
\* after a comment, and between whitespace.
Fill(pat, table) ==
  [k \in 1..Len(pat) |->
     IF pat[k] = "?" THEN table ELSE IF pat[k] = "?n" THEN "5" ELSE pat[k]]

SqlBodies ==
  {Fill(Grammar[g].pat, t) : g \in 1..Len(Grammar), t \in {"t", "v"}}
    \cup {<<>>,
          <<"TRUNCATE", "TABLE", "t">>,
          <<"DROP_TABLE", "t">>,
          <<"select", "*", "from", "t">>,
          <<"drop", "table", "t">>,
          <<"Delete", "from", "t">>,
          <<"pragma", "user_version", "=", "1">>}

SqlArgs ==
  SqlBodies
    \cup {<<COMMENT>> \o body : body \in SqlBodies}
    \cup {<<WS>> \o body \o <<WS>> : body \in SqlBodies}

LimitArgs == {0, SAMPLE_DEFAULT, SAMPLE_MAX + 1}

DatabaseNotFound == <<"Error", "Database not found">>
InvalidTableName == <<"Error: Invalid table name.">>
OnlySelect ==
  <<"Error: Only SELECT statements are permitted. Write operations are blocked.">>

\* What a tool returns for the outcome of its statement: render of the
\* rows, "SQL error: ..." where the tool catches sqlite3.OperationalError,
\* "Error: ..." where it catches Exception only.
Returned(out, render, caught) ==
  IF out[1] = "rows" THEN render ELSE <<caught, out[2]>>

\* list_tables()
ListTables ==
  /\ call' = <<"list_tables">>
  /\ IF ~db.exists
     THEN /\ executed' = <<>>
          /\ reply' = DatabaseNotFound
          /\ db' = db
     ELSE LET sql == <<"SELECT", "name", "FROM", "sqlite_master">>
          IN  /\ executed' = <<sql>>
              /\ reply' = <<"tables", db.tables>>
              /\ db' = db
  /\ UNCHANGED <<ingest, dashboard, pair>>

\* describe_table(table)
DescribeTable ==
  \E table \in TableArgs :
    /\ call' = <<"describe_table", table>>
    /\ IF ~ValidTableName(table)
       THEN /\ executed' = <<>>
            /\ reply' = InvalidTableName
            /\ db' = db
       ELSE IF ~db.exists
       THEN /\ executed' = <<>>
            /\ reply' = DatabaseNotFound
            /\ db' = db
       ELSE LET sql == <<"PRAGMA", "table_info", "(", table, ")">>
                r == Execute(db, sql, OpenMode, -1)
            IN  /\ executed' = <<sql>>
                /\ db' = r.db
                /\ reply' = IF r.out = <<"rows", 0>>
                            THEN <<"Error", "Table does not exist", table>>
                            ELSE Returned(r.out, <<"columns", table, r.out[2]>>, "Error")
    /\ UNCHANGED <<ingest, dashboard, pair>>

\* sample_table(table, limit)
SampleTable ==
  \E table \in TableArgs, limit \in LimitArgs :
    /\ call' = <<"sample_table", table, limit>>
    /\ IF ~ValidTableName(table)
       THEN /\ executed' = <<>>
            /\ reply' = InvalidTableName
            /\ db' = db
       ELSE IF ~db.exists
       THEN /\ executed' = <<>>
            /\ reply' = DatabaseNotFound
            /\ db' = db
       ELSE LET sql == <<"SELECT", "*", "FROM", table, "LIMIT", "?">>
                bound == PyMin(PyMax(SAMPLE_MIN, limit), SAMPLE_MAX)
                r == Execute(db, sql, OpenMode, bound)
            IN  /\ executed' = <<sql>>
                /\ db' = r.db
                /\ reply' = Returned(r.out, <<"row_count", r.out[2]>>, "Error")
    /\ UNCHANGED <<ingest, dashboard, pair>>

\* query_database(sql)
QueryDatabase ==
  \E sql \in SqlArgs :
    /\ call' = <<"query_database", sql>>
    /\ IF ~IsReadOnly(sql)
       THEN /\ executed' = <<>>
            /\ reply' = OnlySelect
            /\ db' = db
       ELSE IF ~db.exists
       THEN /\ executed' = <<>>
            /\ reply' = DatabaseNotFound
            /\ db' = db
       ELSE LET r == Execute(db, sql, OpenMode, -1)
            IN  /\ executed' = <<sql>>
                /\ db' = r.db
                /\ reply' = Returned(r.out, <<"row_count", r.out[2]>>, "SQL error")
    /\ UNCHANGED <<ingest, dashboard, pair>>

\* The server has started; no ingestion runs.
InitServer ==
  /\ fs = [exists |-> FALSE, readable |-> FALSE, doc |-> Document(<<>>)]
  /\ chunk_size = DEFAULT_CHUNK_SIZE
  /\ overlap = DEFAULT_OVERLAP
  /\ Fresh
  /\ store = <<>>
  /\ opened = <<>>
  /\ prev_exit = -1
  /\ changes = 0
  /\ db \in Databases
  /\ call = <<>>
  /\ executed = <<>>
  /\ reply = <<>>
  /\ DashboardIdle
  /\ PairIdle

NextServer ==
  \/ ListTables
  \/ DescribeTable
  \/ SampleTable
  \/ QueryDatabase

SpecServer == InitServer /\ [][NextServer]_vars

\* ------------------------------------------------- server.py: the dashboard

\* How many Streamlit processes the server starts at most in a behaviour.
MaxSpawns == 3

STDLIB ==
  {"os", "sys", "re", "json", "math", "time", "datetime", "random",
   "pathlib", "collections", "itertools", "functools", "typing",
   "io", "csv", "string", "hashlib", "copy", "enum", "abc", "sqlite3"}

\* The code arguments of create_dashboard: no line, standard library only,
\* two packages (one imported in a function body, which the pattern does
\* not see), and the code of the repository.
Codes ==
  {<<>>,
   <<Line("import", FALSE, "os"), Line("other", FALSE, "print")>>,
   <<Line("import", FALSE, "streamlit"), Line("import", TRUE, "numpy"),
     Line("from", FALSE, "plotly")>>,
   RepoCode}

\* _extract_imports(code): the names after import or from at the start of a
\* line that are not in STDLIB.
ExtractImports(code) ==
  {code[k].name : k \in {j \in 1..Len(code) :
                           /\ code[j].kw \in {"import", "from"}
                           /\ ~code[j].indented}} \ STDLIB

\* _install(packages), pip ending with return code 0 or not.
Install(packages, ok) ==
  IF packages = {} THEN <<"No packages to install.">>
  ELSE IF ok THEN <<"Installed", packages>>
  ELSE <<"pip error">>

\* poll() is None
Polls(process, living) == process \in living

\* _start_streamlit(): a process that still runs is terminated and waited
\* for, then a new one is started and becomes the handle.
StartStreamlit(file, process, living, started) ==
  IF ~file.exists
  THEN [streamlit_process |-> process, alive |-> living, spawned |-> started,
        status |-> "No dashboard.py found. Create one first."]
  ELSE LET left == IF process # 0 /\ Polls(process, living)
                   THEN living \ {process} ELSE living
       IN  [streamlit_process |-> started + 1,
            alive |-> left \cup {started + 1},
            spawned |-> started + 1,
            status |-> "Streamlit running"]

\* Mutant of DashboardStatus: the handle alone decides.
DashboardStatus_HandleOnly(process, living) ==
  IF process # 0 THEN <<"Running", process>> ELSE <<"Not running.">>

\* What get_dashboard_status() returns.
DashboardStatus(process, living) ==
  IF process # 0 /\ Polls(process, living)
  THEN <<"Running", process>>
  ELSE <<"Not running.">>

\* Mutant of CreateDashboard: _start_streamlit is called in every case.
CreateDashboard_Restart ==
  /\ \E code \in Codes, ok \in BOOLEAN :
       LET install_log == Install(ExtractImports(code), ok)
           written == [exists |-> TRUE, code |-> code]
           s == StartStreamlit(written, streamlit_process, alive, spawned)
       IN  /\ spawned < MaxSpawns
           /\ call' = <<"create_dashboard", code>>
           /\ dashboard_file' = written
           /\ streamlit_process' = s.streamlit_process
           /\ alive' = s.alive
           /\ spawned' = s.spawned
           /\ reply' = <<<<"written", Len(code)>>, install_log, s.status>>
  /\ UNCHANGED <<db, executed>>
  /\ UNCHANGED <<ingest, pair>>

\* create_dashboard(code)
CreateDashboard ==
  /\ \E code \in Codes, ok \in BOOLEAN :
       LET install_log == Install(ExtractImports(code), ok)
           written == [exists |-> TRUE, code |-> code]
           dead == streamlit_process = 0 \/ ~Polls(streamlit_process, alive)
           s == StartStreamlit(written, streamlit_process, alive, spawned)
       IN  /\ dead => spawned < MaxSpawns
           /\ call' = <<"create_dashboard", code>>
           /\ dashboard_file' = written
           /\ IF dead
              THEN /\ streamlit_process' = s.streamlit_process
                   /\ alive' = s.alive
                   /\ spawned' = s.spawned
                   /\ reply' = <<<<"written", Len(code)>>, install_log, s.status>>
              ELSE /\ UNCHANGED <<streamlit_process, alive, spawned>>
                   /\ reply' = <<<<"written", Len(code)>>, install_log,
                                 "Dashboard updated">>
  /\ UNCHANGED <<db, executed>>
  /\ UNCHANGED <<ingest, pair>>

\* Mutant of StopDashboard: the handle is cleared, the process is left as
\* it is.
StopDashboard_Forget ==
  /\ call' = <<"stop_dashboard">>
  /\ IF streamlit_process = 0 \/ ~Polls(streamlit_process, alive)
     THEN /\ reply' = <<"No dashboard is currently running.">>
          /\ UNCHANGED <<streamlit_process, alive>>
     ELSE /\ streamlit_process' = 0
          /\ alive' = alive
          /\ reply' = <<"Streamlit dashboard stopped.">>
  /\ UNCHANGED <<dashboard_file, spawned, db, executed>>
  /\ UNCHANGED <<ingest, pair>>

\* stop_dashboard()
StopDashboard ==
  /\ call' = <<"stop_dashboard">>
  /\ IF streamlit_process = 0 \/ ~Polls(streamlit_process, alive)
     THEN /\ reply' = <<"No dashboard is currently running.">>
          /\ UNCHANGED <<streamlit_process, alive>>
     ELSE /\ alive' = alive \ {streamlit_process}
          /\ streamlit_process' = 0
          /\ reply' = <<"Streamlit dashboard stopped.">>
  /\ UNCHANGED <<dashboard_file, spawned, db, executed>>
  /\ UNCHANGED <<ingest, pair>>

\* get_dashboard_status()
GetDashboardStatus ==
  /\ call' = <<"get_dashboard_status">>
  /\ reply' = DashboardStatus(streamlit_process, alive)
  /\ UNCHANGED <<dashboard, db, executed>>
  /\ UNCHANGED <<ingest, pair>>

\* read_dashboard()
ReadDashboard ==
  /\ call' = <<"read_dashboard">>
  /\ reply' = IF ~dashboard_file.exists
              THEN <<"No dashboard.py exists yet.">>
              ELSE <<"code", dashboard_file.code>>
  /\ UNCHANGED <<dashboard, db, executed>>
  /\ UNCHANGED <<ingest, pair>>

\* The Streamlit process exits on its own (it crashes, or it is killed from
\* outside) while no tool call is served.
ProcessExits ==
  /\ \E p \in alive : alive' = alive \ {p}
  /\ call' = <<>>
  /\ reply' = <<>>
  /\ UNCHANGED <<dashboard_file, streamlit_process, spawned, db, executed>>
  /\ UNCHANGED <<ingest, pair>>

\* The server has just started; dashboard.py is the file of the repository
\* or has been removed.
InitDashboard ==
  /\ fs = [exists |-> FALSE, readable |-> FALSE, doc |-> Document(<<>>)]
  /\ chunk_size = DEFAULT_CHUNK_SIZE
  /\ overlap = DEFAULT_OVERLAP
  /\ Fresh
  /\ store = <<>>
  /\ opened = <<>>
  /\ prev_exit = -1
  /\ changes = 0
  /\ ServerIdle
  /\ dashboard_file \in {RepoDashboard, [exists |-> FALSE, code |-> <<>>]}
  /\ streamlit_process = 0
  /\ alive = {}
  /\ spawned = 0
  /\ PairIdle

NextDashboard ==
  \/ CreateDashboard
  \/ StopDashboard
  \/ GetDashboardStatus
  \/ ReadDashboard
  \/ ProcessExits

SpecDashboard == InitDashboard /\ [][NextDashboard]_vars

\* ----------------------------------------------------------------- claims

\* chunk_text has returned its list to main.
ChunkTextReturned ==
  \/ pc = "upsert"
  \/ pc = "exited" /\ err \in {"", "UpsertError"}

\* The command ran to its end and returned normally.
RunSucceeded == pc = "exited" /\ exit_code = 0

ValidOverlap == 0 < overlap /\ overlap < chunk_size

\* The chunks of the page numbered p, in emission order.
PageChunks(p) == SelectSeq(chunks, LAMBDA c : c.page = p)

\* The number of words of the k-th extracted page.
PageLen(k) == Len(Split(pages[k].text))

\* The words of a chunk's text.
TextWords(c) == {c.text[k] : k \in {j \in 1..Len(c.text) : ~IsSpace(c.text[j])}}

\* The decimal numeral of n < 10000, digit by digit.
Decimal(n) ==
  LET pow(k) == IF k = 0 THEN 1 ELSE IF k = 1 THEN 10 ELSE IF k = 2 THEN 100 ELSE 1000
      len == IF n < 10 THEN 1 ELSE IF n < 100 THEN 2 ELSE IF n < 1000 THEN 3 ELSE 4
  IN  [k \in 1..len |-> DigitChar[((n \div pow(len - k)) % 10) + 1]]

\* C1: with 0 < overlap < chunk_size, the chunks of every page, in emission
\* order, cover the page's words without a gap: the first starts at word 0,
\* each next one starts at or before the end of the one before, and the
\* last ends at the page's word count.
C1_RangesCoverPage ==
  (ChunkTextReturned /\ ValidOverlap) =>
    \A k \in 1..Len(pages) :
      LET cs == PageChunks(pages[k].page)
      IN  /\ Len(cs) >= 1
          /\ cs[1].word_start = 0
          /\ \A j \in 2..Len(cs) : cs[j].word_start <= cs[j - 1].word_end
          /\ cs[Len(cs)].word_end = PageLen(k)

\* A page cut into at least three chunks with a valid overlap.
C1_Witness ==
  /\ ChunkTextReturned
  /\ ValidOverlap
  /\ \E k \in 1..Len(pages) : Len(PageChunks(pages[k].page)) >= 3

\* C2: with 0 < overlap < chunk_size, two consecutive chunks of one page
\* start chunk_size - overlap words apart and share exactly overlap words.
C2_StrideAndOverlap ==
  ValidOverlap =>
    \A k \in 1..(Len(chunks) - 1) :
      chunks[k].page = chunks[k + 1].page =>
        /\ chunks[k + 1].word_start = chunks[k].word_start + (chunk_size - overlap)
        /\ chunks[k].word_end - chunks[k + 1].word_start = overlap
        /\ Cardinality(TextWords(chunks[k]) \cap TextWords(chunks[k + 1])) = overlap

\* Two consecutive chunks of a page of which the second is the page's last
\* and shorter than chunk_size.
C2_Witness ==
  /\ ChunkTextReturned
  /\ ValidOverlap
  /\ \E k \in 1..(Len(chunks) - 1) :
       /\ chunks[k].page = chunks[k + 1].page
       /\ chunks[k + 1].word_end - chunks[k + 1].word_start < chunk_size

\* C3: a run with overlap >= chunk_size is rejected before processing: it
\* extracts no page, produces no chunk, has no text embedded, writes no
\* record to the store, and ends with an exit status that is not zero.
C3_RejectedBeforeProcessing ==
  overlap >= chunk_size =>
    /\ pages = <<>>
    /\ chunks = <<>>
    /\ embedded = 0
    /\ store = <<>>
    /\ pc = "exited" => exit_code # 0

\* The run of --chunk-size 1 --overlap 1 on a PDF of one page holding one
\* word: it has returned normally and the store holds the page's chunk.
C3_Witness ==
  /\ chunk_size = 1
  /\ overlap = 1
  /\ fs.doc.sizes = <<1>>
  /\ RunSucceeded
  /\ Len(pages) = 1
  /\ Len(chunks) = 1
  /\ embedded = 1
  /\ Len(store) = 1
  /\ store[1].id = <<"p", "1", "_", "c", "0">>

\* C4: the k-th chunk emitted (from 0) has chunk_index k, whatever page it
\* is on, and the returned list is in reading order: each chunk is followed
\* by a chunk of a later page, or of the same page with a later word_start.
C4_IndexIsEmissionOrder ==
  /\ \A k \in 1..Len(chunks) : chunks[k].chunk_index = k - 1
  /\ ChunkTextReturned =>
       \A k \in 1..(Len(chunks) - 1) :
         \/ chunks[k].page < chunks[k + 1].page
         \/ /\ chunks[k].page = chunks[k + 1].page
            /\ chunks[k].word_start < chunks[k + 1].word_start

\* Two pages with chunks, the first with more than one, so that the second
\* page's first chunk does not have index 0 or 1.
C4_Witness ==
  /\ ChunkTextReturned
  /\ Len(pages) >= 2
  /\ Len(PageChunks(pages[1].page)) >= 2
  /\ Len(PageChunks(pages[2].page)) >= 2

\* C5: every chunk's chunk_id is "p", its page in decimal, "_c", its
\* chunk_index in decimal, and no two chunks have the same chunk_id.
C5_ChunkIdFormatAndUnique ==
  /\ \A k \in 1..Len(chunks) :
       chunks[k].chunk_id =
         <<"p">> \o Decimal(chunks[k].page) \o <<"_", "c">>
                 \o Decimal(chunks[k].chunk_index)
  /\ Cardinality({chunks[k].chunk_id : k \in 1..Len(chunks)}) = Len(chunks)

\* A returned list with a three-digit chunk_index.
C5_Witness ==
  /\ ChunkTextReturned
  /\ \E k \in 1..Len(chunks) : chunks[k].chunk_index >= 100

\* C6: when a run that succeeded is followed by a run of the same command
\* on the same file that succeeds too, the collection after the second run
\* is the collection the second run opened: the same ids, as many records,
\* the same text and metadata under every id, and no id twice.
C6_RerunChangesNothing ==
  (RunSucceeded /\ prev_exit = 0) =>
    /\ store = opened
    /\ Len(store) = Len(opened)
    /\ {store[k].id : k \in 1..Len(store)} = {opened[k].id : k \in 1..Len(opened)}
    /\ \A k \in 1..Len(chunks) : \E r \in 1..Len(store) : store[r].id = chunks[k].chunk_id
    /\ \A k, l \in 1..Len(store) : k # l => store[k].id # store[l].id

\* A second successful run over a collection of more than one batch.
C6_Witness ==
  /\ RunSucceeded
  /\ prev_exit = 0
  /\ Len(store) > BATCH

\* C7: after the batch loop the collection is what one upsert of all
\* chunks at once would have made of the collection that was opened; every
\* chunk was written once, and the record under a chunk's id carries that
\* chunk's text and metadata.
C7_BatchesAsOneUpsert ==
  RunSucceeded =>
    /\ store = Upsert(opened, Records(chunks, SourceName))
    /\ embedded = Len(chunks)
    /\ \A k \in 1..Len(chunks) :
         \E r \in 1..Len(store) :
           /\ store[r].id = chunks[k].chunk_id
           /\ store[r].document = chunks[k].text
           /\ store[r].metadata.chunk_index = chunks[k].chunk_index
           /\ \A q \in 1..Len(store) : store[q].id = chunks[k].chunk_id => q = r

\* A successful run of 257 chunks: two full batches and one chunk more.
C7_Witness ==
  /\ RunSucceeded
  /\ Len(chunks) = 2 * BATCH + 1
  /\ Len(stdout) = 4

\* C8: no chunk is wider than chunk_size, and a chunk that another chunk
\* of the same page follows is exactly chunk_size wide.
C8_WidthAtMostChunkSize ==
  \A k \in 1..Len(chunks) :
    /\ chunks[k].word_end - chunks[k].word_start <= chunk_size
    /\ (\E l \in (k + 1)..Len(chunks) : chunks[l].page = chunks[k].page) =>
         chunks[k].word_end - chunks[k].word_start = chunk_size

\* A page whose last chunk is narrower than chunk_size and follows a chunk
\* of full width.
C8_Witness ==
  /\ ChunkTextReturned
  /\ \E k \in 1..(Len(chunks) - 1) :
       /\ chunks[k].page = chunks[k + 1].page
       /\ chunks[k].word_end - chunks[k].word_start = chunk_size
       /\ chunks[k + 1].word_end - chunks[k + 1].word_start < chunk_size
       /\ chunks[k + 1].word_end - chunks[k + 1].word_start > 0

\* C9: with 0 < overlap < chunk_size, a page of n > chunk_size words gives
\* the chunks starting at 0, s, 2s, ..., k*s with s = chunk_size - overlap
\* and k the smallest integer with k*s + chunk_size >= n, the last one
\* ending at n; 1024 words with chunk_size 512 and overlap 128 give three
\* chunks, starting at 0, 384 and 768, the last ending at 1024.
C9_StartsAtMultiplesOfStride ==
  (ChunkTextReturned /\ ValidOverlap) =>
    \A p \in 1..Len(pages) :
      LET n == PageLen(p)
          s == chunk_size - overlap
          k == CHOOSE m \in 0..n :
                 /\ m * s + chunk_size >= n
                 /\ \A q \in 0..(m - 1) : q * s + chunk_size < n
          cs == PageChunks(pages[p].page)
      IN  n > chunk_size =>
            /\ Len(cs) = k + 1
            /\ \A j \in 0..k :
                 /\ cs[j + 1].word_start = j * s
                 /\ cs[j + 1].word_end = PyMin(j * s + chunk_size, n)
            /\ cs[k + 1].word_end = n
            /\ (n = 1024 /\ chunk_size = 512 /\ overlap = 128) =>
                 /\ [j \in 1..Len(cs) |-> cs[j].word_start] = <<0, 384, 768>>
                 /\ cs[3].word_end = 1024

\* The documented example: one page of 1024 words, chunk_size 512,
\* overlap 128, chunked.
C9_Witness ==
  /\ ChunkTextReturned
  /\ chunk_size = 512
  /\ overlap = 128
  /\ Len(pages) = 1
  /\ PageLen(1) = 1024
  /\ Len(chunks) = 3

\* C10: a page of n words with 1 <= n < chunk_size gives exactly one chunk,
\* from word 0 to word n, whatever the overlap.
C10_ShortPageOneChunk ==
  ChunkTextReturned =>
    \A p \in 1..Len(pages) :
      (1 <= PageLen(p) /\ PageLen(p) < chunk_size) =>
        /\ Len(PageChunks(pages[p].page)) = 1
        /\ PageChunks(pages[p].page)[1].word_start = 0
        /\ PageChunks(pages[p].page)[1].word_end = PageLen(p)

\* Short pages chunked with an overlap that is not below chunk_size, and
\* the documented example of 10 words with chunk_size 512, overlap 128.
C10_Witness ==
  /\ ChunkTextReturned
  /\ \/ /\ overlap >= chunk_size
        /\ Len(pages) = 2
        /\ \A p \in 1..2 : PageLen(p) < chunk_size
     \/ /\ chunk_size = 512
        /\ overlap = 128
        /\ Len(pages) = 1
        /\ PageLen(1) = 10

\* extract_text has returned its list to main.
ExtractReturned ==
  \/ pc \in {"chunk_for", "chunk_while", "upsert"}
  \/ pc = "exited" /\ err \in {"", "UpsertError", "Killed"}

\* C11: a page of the PDF without a word is not in the list extract_text
\* returns and has no chunk; every other page is in the list under its
\* own 1-based number, which its chunks carry, and chunk_index goes up by
\* one from each chunk to the next, over a skipped page too.
C11_EmptyPagesSkipped ==
  ExtractReturned =>
    /\ \A k \in 1..Len(fs.doc.sizes) :
         IF fs.doc.sizes[k] = 0
         THEN /\ \A q \in 1..Len(pages) : pages[q].page # k
              /\ \A c \in 1..Len(chunks) : chunks[c].page # k
         ELSE /\ Cardinality({q \in 1..Len(pages) : pages[q].page = k}) = 1
              /\ \A q \in 1..Len(pages) :
                   pages[q].page = k =>
                     Split(pages[q].text) = [j \in 1..fs.doc.sizes[k] |-> Word(fs.doc.d, k, j)]
              /\ ChunkTextReturned => \E c \in 1..Len(chunks) : chunks[c].page = k
    /\ \A c \in 1..Len(chunks) : \A w \in TextWords(chunks[c]) : w[2] = chunks[c].page
    /\ \A c \in 1..(Len(chunks) - 1) :
         chunks[c + 1].chunk_index = chunks[c].chunk_index + 1

\* A chunked document with a page without words between two pages with
\* words: the chunk after the gap carries the later page's number and the
\* next index.
C11_Witness ==
  /\ ChunkTextReturned
  /\ \E c \in 1..(Len(chunks) - 1) :
       /\ chunks[c + 1].page > chunks[c].page + 1
       /\ \A k \in (chunks[c].page + 1)..(chunks[c + 1].page - 1) : fs.doc.sizes[k] = 0
       /\ chunks[c + 1].chunk_index = chunks[c].chunk_index + 1
       /\ chunks[c].chunk_index > 0

\* C12 as claimed: with 0 < overlap < chunk_size, two consecutive chunks
\* of a page have chunk_size - overlap words in common, unless the second
\* is the last chunk of the page, which has at least as many in common.
C12_OverlapIsStride ==
  ValidOverlap =>
    \A k \in 1..(Len(chunks) - 1) :
      chunks[k].page = chunks[k + 1].page =>
        IF \E l \in (k + 2)..Len(chunks) : chunks[l].page = chunks[k].page
        THEN chunks[k].word_end - chunks[k + 1].word_start = chunk_size - overlap
        ELSE ChunkTextReturned =>
               chunks[k].word_end - chunks[k + 1].word_start >= chunk_size - overlap

\* C12 as amended: with 0 < overlap < chunk_size, two consecutive chunks of
\* a page have exactly overlap words in common, the last chunk of the page
\* included: what a chunk has in common with the one before is the first
\* overlap words of its range.
C12_OverlapIsOverlap ==
  ValidOverlap =>
    \A k \in 1..(Len(chunks) - 1) :
      chunks[k].page = chunks[k + 1].page =>
        /\ chunks[k].word_end - chunks[k + 1].word_start = overlap
        /\ chunks[k + 1].word_start < chunks[k].word_end
        /\ chunks[k].word_end <= chunks[k + 1].word_end

\* Three chunks of a page where overlap is not chunk_size - overlap and the
\* last chunk is narrower than chunk_size.
C12_Witness ==
  /\ ChunkTextReturned
  /\ ValidOverlap
  /\ overlap # chunk_size - overlap
  /\ \E k \in 1..(Len(chunks) - 2) :
       /\ chunks[k].page = chunks[k + 2].page
       /\ chunks[k + 2].word_end - chunks[k + 2].word_start < chunk_size

\* C13: a run with chunk_size <= 0 is rejected before any I/O: the PDF is
\* not read, chunk_text and embed_and_store are not entered, nothing is
\* embedded, nothing is written, and the exit status is not zero.
C13_NonPositiveSizeRejected ==
  chunk_size <= 0 =>
    /\ pc \in {"main", "exited"}
    /\ pages = <<>>
    /\ chunks = <<>>
    /\ embedded = 0
    /\ store = <<>>
    /\ pc = "exited" => exit_code # 0 /\ err \notin {"PdfReadError", "UpsertError"}

\* The run of --chunk-size 0 --overlap -1 on a PDF of one page holding two
\* words: it has returned normally and the store holds two records
\* without text.
C13_Witness ==
  /\ chunk_size = 0
  /\ overlap = -1
  /\ fs.doc.sizes = <<2>>
  /\ RunSucceeded
  /\ Len(chunks) = 2
  /\ Len(store) = 2
  /\ \A k \in 1..2 : store[k].document = <<>>

\* The run was aborted by an exception of collection.upsert.
UpsertAborted == pc = "exited" /\ err = "UpsertError"

\* C14: when collection.upsert fails on the batch that starts at record
\* i, no later batch is attempted (what was embedded is the i records of
\* the batches before) and the records of the batches before are in the
\* store as written; a record of the failed or a later batch is in the
\* store only as it was when the collection was opened.
C14_NoRollback ==
  UpsertAborted =>
    LET records == Records(chunks, SourceName)
    IN  /\ i < Len(chunks)
        /\ embedded = i
        /\ Len(stdout) = i \div BATCH
        /\ Len(store) = PyMax(i, Len(opened))
        /\ \A k \in 1..i : store[k] = Stored(records[k])
        /\ \A k \in (i + 1)..Len(store) : store[k] = opened[k]

\* The third batch of three fails on a store that was empty: the 256
\* records of the two batches before are kept.
C14_Witness ==
  /\ UpsertAborted
  /\ opened = <<>>
  /\ Len(chunks) = 2 * BATCH + 1
  /\ i = 2 * BATCH
  /\ Len(store) = 2 * BATCH

\* The store after an uninterrupted run on an empty collection: one record
\* for each chunk, in the order of the chunks.
Uninterrupted ==
  LET records == Records(chunks, SourceName)
  IN  [k \in 1..Len(records) |-> Stored(records[k])]

\* The run before this one ended by an exception or was killed.
AfterInterruption == prev_exit \in {1, 137}

\* C15: a run of the same command on the same document that follows an
\* interrupted run and returns normally leaves the store as an uninterrupted
\* run on an empty collection leaves it.
C15_ResumeEqualsUninterrupted ==
  (RunSucceeded /\ AfterInterruption) => store = Uninterrupted

\* A run that found the records of one or two batches, but not of all
\* three, has returned normally.
C15_Witness ==
  /\ RunSucceeded
  /\ AfterInterruption
  /\ Len(chunks) = 2 * BATCH + 1
  /\ Len(opened) \in {BATCH, 2 * BATCH}
  /\ Len(store) = Len(chunks)

\* C17: a run aborted by a failure of collection.upsert has printed a
\* report that names the index of the failed batch and the number of chunks
\* written before it.
C17_FailureReported ==
  UpsertAborted =>
    \E k \in 1..Len(stdout) :
      /\ stdout[k][1] \notin {"Upserted", "Done"}
      /\ stdout[k][2] = i \div BATCH
      /\ stdout[k][3] = embedded

\* The first batch fails: the run has printed nothing.
C17_Witness ==
  /\ UpsertAborted
  /\ i = 0
  /\ Len(chunks) = 2 * BATCH + 1
  /\ stdout = <<>>

\* C18: a run on a path that does not exist or on a file that cannot be
\* parsed ends at once with a non-zero status and an error of its own kind;
\* no page list is returned, no chunk is made and nothing is written.
C18_ReadErrorIsFatal ==
  (~fs.exists \/ ~fs.readable) =>
    /\ pc \in {"main", "exited"}
    /\ pages = <<>>
    /\ chunks = <<>>
    /\ embedded = 0
    /\ store = <<>>
    /\ stdout = <<>>
    /\ pc = "exited" =>
         /\ exit_code # 0
         /\ err = (IF fs.exists THEN "PdfReadError" ELSE "FileNotFound")
         /\ err \notin {"", "UpsertError", "Killed"}

\* A file of two pages with words that cannot be parsed: the run has ended
\* with the reader's error.
C18_Witness ==
  /\ pc = "exited"
  /\ fs.exists
  /\ ~fs.readable
  /\ fs.doc.sizes = <<2, 4>>
  /\ err = "PdfReadError"
  /\ exit_code = 1

\* A path that does not exist: the run has ended with sys.exit's message.
C18_WitnessNotFound ==
  /\ pc = "exited"
  /\ ~fs.exists
  /\ err = "FileNotFound"
  /\ exit_code = 1

\* The ids of the records of a collection.
StoreIds(coll) == {coll[k].id : k \in 1..Len(coll)}

\* C16: no step of a run takes an id out of the collection, whatever was
\* run before on the store, and when a run has returned normally the ids
\* of the collection are the ids it held when the run opened it and the
\* ids of the run's chunks.
C16_Step ==
  /\ StoreIds(store) \subseteq StoreIds(store')
  /\ (pc' = "exited" /\ exit_code' = 0) =>
       StoreIds(store') =
         StoreIds(opened') \cup {chunks'[k].chunk_id : k \in 1..Len(chunks')}

C16_NeverDeletes == [][C16_Step]_vars

\* A run after a change of the file or of the parameters has returned
\* normally and the store holds an id that is not an id of its chunks.
C16_Witness ==
  /\ RunSucceeded
  /\ changes >= 1
  /\ Len(chunks) >= 1
  /\ StoreIds(store) # {chunks[k].chunk_id : k \in 1..Len(chunks)}
  /\ StoreIds(opened) # {}

\* The string is a SELECT statement, with or without a WITH clause before:
\* the statements SQLite only reads rows with.
IsSelect(sql) ==
  /\ Parse(sql).kind = "read"
  /\ Lexemes(sql)[1] \in {"SELECT", "WITH"}

\* C19: query_database passes a string to the database only if it is a
\* SELECT statement; for every other string it returns the error 'Only
\* SELECT statements are permitted' and executes nothing (stated for a
\* database file that exists).
C19_OnlySelectExecuted ==
  (db.exists /\ call # <<>> /\ call[1] = "query_database" /\ ~IsSelect(call[2])) =>
    /\ reply = OnlySelect
    /\ executed = <<>>

\* query_database("/*c*/ DROP TABLE t") on a database that holds t: the
\* statement went to SQLite, which refused it for the read-only connection.
C19_Witness ==
  /\ call = <<"query_database", <<COMMENT, "DROP", "TABLE", "t">>>>
  /\ "t" \in db.tables
  /\ executed = <<call[2]>>
  /\ reply = <<"SQL error", ReadOnlyDatabase[2]>>

\* C20: no call of list_tables, describe_table, sample_table or
\* query_database changes the database: tables, rows and user_version
\* are after every call what they were before.
C20_ToolsNeverWrite == [][db' = db]_vars

\* A statement that writes has passed the keyword filter and was executed
\* on a database that holds its table; the database still holds the table
\* and its rows.
C20_Witness ==
  /\ call # <<>>
  /\ call[1] = "query_database"
  /\ IsReadOnly(call[2])
  /\ Parse(call[2]).kind \in WriteKinds
  /\ executed = <<call[2]>>
  /\ reply = <<"SQL error", ReadOnlyDatabase[2]>>
  /\ db = Database({"t", "u"}, 2)

\* chunk_size >= 1 and 0 <= overlap < chunk_size.
NonEmptyParams == chunk_size >= 1 /\ 0 <= overlap /\ overlap < chunk_size

\* C23: with chunk_size >= 1 and 0 <= overlap < chunk_size every chunk has
\* 0 <= word_start < word_end and a text of exactly word_end - word_start
\* words, and a page without a word has no chunk.
C23_NoEmptyChunk ==
  NonEmptyParams =>
    /\ \A c \in 1..Len(chunks) :
         /\ 0 <= chunks[c].word_start
         /\ chunks[c].word_start < chunks[c].word_end
         /\ Len(Split(chunks[c].text)) = chunks[c].word_end - chunks[c].word_start
    /\ \A k \in 1..Len(fs.doc.sizes) :
         fs.doc.sizes[k] = 0 => \A c \in 1..Len(chunks) : chunks[c].page # k

\* A page of three words and a page without a word, chunked with
\* chunk_size 2 and overlap 0: the chunks [0,2) and [2,3) of page 1.
C23_Witness ==
  /\ ChunkTextReturned
  /\ chunk_size = 2
  /\ overlap = 0
  /\ fs.doc.sizes = <<3, 0>>
  /\ Len(chunks) = 2
  /\ chunks[2].word_start = 2
  /\ chunks[2].word_end = 3
  /\ Len(Split(chunks[2].text)) = 1

\* C24: a step that appends a chunk is a step of chunk_text on the full
\* page list of the document, before anything is embedded or written; a
\* step that writes a batch is a step of embed_and_store on the chunk list
\* of all the pages, which it leaves as it is, and the batch is the chunks
\* that follow the ones written before, in the order of chunk_index.
C24_Step ==
  /\ (chunks' # chunks /\ chunks' # <<>>) =>
       /\ pc = "chunk_while"
       /\ pages = ExtractText(fs.doc)
       /\ pages' = pages
       /\ embedded = 0
       /\ store' = store
  /\ (embedded' # embedded /\ embedded' # 0) =>
       /\ pc = "upsert"
       /\ page_i = Len(pages)
       /\ chunks' = chunks
       /\ embedded = i
       /\ embedded' = PyMin(i + BATCH, Len(chunks))
       /\ \A k \in (i + 1)..embedded' :
            /\ chunks[k].chunk_index = k - 1
            /\ store'[k].id = chunks[k].chunk_id

C24_StagesInOrder == [][C24_Step]_vars

\* The three batches of 257 chunks have been written and the last record
\* is the one of the last chunk.
C24_Witness ==
  /\ RunSucceeded
  /\ Len(chunks) = 2 * BATCH + 1
  /\ embedded = Len(chunks)
  /\ store[embedded].metadata.chunk_index = 2 * BATCH

\* C25: after a run that returned normally, the store holds under the id
\* of each chunk one record, with the chunk's text as document and the
\* chunk's page, chunk_index, word_start, word_end and the file name of the
\* PDF as metadata; total_chunks is the number of chunks.
C25_RecordsMatchChunks ==
  RunSucceeded =>
    /\ \A k \in 1..Len(chunks) :
         LET hits == {j \in 1..Len(store) : store[j].id = chunks[k].chunk_id}
         IN  /\ Cardinality(hits) = 1
             /\ \A j \in hits :
                  /\ store[j].document = chunks[k].text
                  /\ store[j].metadata =
                       [page        |-> chunks[k].page,
                        chunk_index |-> chunks[k].chunk_index,
                        word_start  |-> chunks[k].word_start,
                        word_end    |-> chunks[k].word_end,
                        source      |-> fs.doc.name]
    /\ stdout # <<>>
    /\ stdout[Len(stdout)] = <<"Done", Len(chunks)>>

\* A document of two pages, chunked with 2/1, is stored: six records.
C25_Witness ==
  /\ RunSucceeded
  /\ fs.doc.sizes = <<4, 4>>
  /\ chunk_size = 2
  /\ overlap = 1
  /\ Len(store) = 6
  /\ store[4].metadata.page = 2
  /\ store[4].metadata.source = "a.pdf"

\* main is inside chunk_text.
InChunkText == pc \in {"chunk_for", "chunk_while"}

\* C27: with chunk_size >= 1 and 0 <= overlap < chunk_size chunk_text
\* returns, and every iteration of the while loop that does not end the
\* page moves start up by chunk_size - overlap, which is 1 at least.
C27_Advance ==
  (NonEmptyParams /\ pc = "chunk_while" /\ pc' = "chunk_while") =>
    /\ start' = start + (chunk_size - overlap)
    /\ start' > start
    /\ start' < Len(Words)

C27_ChunkTextTerminates ==
  /\ (NonEmptyParams /\ InChunkText) ~> (pc = "upsert")
  /\ [][C27_Advance]_vars

\* chunk_text has returned three chunks for pages of four words and of one
\* word, with chunk_size 3 and overlap 2.
C27_Witness ==
  /\ pc = "upsert"
  /\ fs.doc.sizes = <<4, 1>>
  /\ chunk_size = 3
  /\ overlap = 2
  /\ Len(chunks) = 3
  /\ chunks[2].word_start = 1

\* chunk_size >= 1 and overlap >= chunk_size: the stride is not positive.
NoStride == chunk_size >= 1 /\ overlap >= chunk_size

\* Every page has at most chunk_size words.
AllPagesFit == \A k \in 1..Len(pages) : PageLen(k) <= chunk_size

\* C28: with chunk_size >= 1 and overlap >= chunk_size, chunk_text returns
\* if every page has at most chunk_size words, with one chunk for each page;
\* on a page of more than chunk_size words every iteration of the while loop
\* appends a chunk and stays in the loop, so chunk_text returns only if
\* there is no such page.
C28_Spins ==
  (NoStride /\ pc = "chunk_while" /\ Len(Words) > chunk_size) =>
    /\ pc' = "chunk_while"
    /\ chunks' # chunks => Len(chunks') = Len(chunks) + 1
    /\ start' <= 0
    /\ WindowEnd(start', chunk_size, Len(Words)) < Len(Words)

C28_TerminatesIffPagesFit ==
  /\ [](NoStride /\ ChunkTextReturned => AllPagesFit /\ Len(chunks) = Len(pages))
  /\ (NoStride /\ InChunkText /\ AllPagesFit) ~> (pc = "upsert")
  /\ [][C28_Spins]_vars

\* chunk_size 1 and overlap 2 on a page of two words: the loop has
\* appended more chunks than the page has words and is still on the page, its
\* window before the page's end.
C28_Witness ==
  /\ NoStride
  /\ pc = "chunk_while"
  /\ chunk_size = 1
  /\ overlap = 2
  /\ fs.doc.sizes = <<2>>
  /\ Len(chunks) > 2
  /\ start < 0

\* chunk_size 2 and overlap 3 on pages of two words and of one word:
\* chunk_text has returned one chunk for each page.
C28_WitnessFits ==
  /\ NoStride
  /\ pc = "upsert"
  /\ chunk_size = 2
  /\ overlap = 3
  /\ fs.doc.sizes = <<2, 1>>
  /\ Len(chunks) = 2
  /\ chunks[2].page = 2

\* C29: the id of a chunk is made of its page and index only, so a run on a
\* store that holds the records of another document leaves it, when it
\* returns normally, with: under every id the run produces, the run's
\* record (text, metadata and source of this document); under every other
\* id, the record the collection held when the run opened it.
C29_OverwriteById ==
  RunSucceeded =>
    /\ \A k \in 1..Len(chunks) :
         chunks[k].chunk_id =
           <<"p">> \o Decimal(chunks[k].page) \o <<"_", "c">> \o Decimal(chunks[k].chunk_index)
    /\ \A j \in 1..Len(store) :
         LET mine == {k \in 1..Len(chunks) : chunks[k].chunk_id = store[j].id}
         IN  IF mine # {}
             THEN \A k \in mine :
                    /\ store[j].document = chunks[k].text
                    /\ store[j].embedding = Embed(chunks[k].text)
                    /\ store[j].metadata.source = fs.doc.name
                    /\ store[j].metadata.page = chunks[k].page
                    /\ store[j].metadata.word_start = chunks[k].word_start
                    /\ store[j].metadata.word_end = chunks[k].word_end
             ELSE \E o \in 1..Len(opened) : opened[o] = store[j]

\* b.pdf was ingested into a store that held records of a.pdf: a record
\* of a.pdf was replaced by one of b.pdf, another record of a.pdf is still
\* there.
C29_Witness ==
  /\ RunSucceeded
  /\ fs.doc.name = "b.pdf"
  /\ \E o \in 1..Len(opened), j \in 1..Len(store) :
       /\ opened[o].id = store[j].id
       /\ opened[o].metadata.source = "a.pdf"
       /\ store[j].metadata.source = "b.pdf"
       /\ store[j].document # opened[o].document
  /\ \E j \in 1..Len(store) : store[j].metadata.source = "a.pdf"

\* The two commands have returned.
PairDone == runs # <<>> /\ \A p \in 1..2 : runs[p].pc = "exited"

\* The collection after one command alone has run on coll: its batches in
\* the order of the loop.
RECURSIVE SingleRun(_, _, _)
SingleRun(coll, records, from) ==
  IF ~(from < Len(records)) THEN coll
  ELSE SingleRun(Upsert(coll, BatchOf(records, from)), records, from + BATCH)

\* The record command p makes for an id.
PairRecord(p, id) ==
  LET records == Records(runs[p].chunks, runs[p].doc.name)
  IN  records[CHOOSE k \in 1..Len(records) : records[k].id = id]

\* C30: when two commands on one collection have both returned, whatever
\* the order of their batch upserts: if they ingested the same document
\* under the same name with the same parameters, the collection is the one
\* a single run leaves; in every case the collection holds the ids it held
\* before and the ids of both commands, every id a command upserted holds
\* the record of the command that upserted it last, and every other record
\* is as it was before.
C30_InterleavedUpserts ==
  PairDone =>
    /\ (runs[1].doc = runs[2].doc /\ runs[1].chunk_size = runs[2].chunk_size
          /\ runs[1].overlap = runs[2].overlap) =>
         store = SingleRun(opened, Records(runs[1].chunks, runs[1].doc.name), 0)
    /\ StoreIds(store) =
         StoreIds(opened) \cup UNION {{runs[p].chunks[k].chunk_id :
                                          k \in 1..Len(runs[p].chunks)} : p \in 1..2}
    /\ \A j \in 1..Len(store) :
         IF store[j].id \in DOMAIN writer
         THEN store[j] = Stored(PairRecord(writer[store[j].id], store[j].id))
         ELSE \E o \in 1..Len(opened) : opened[o] = store[j]
    /\ \A j, k \in 1..Len(store) : store[j].id = store[k].id => j = k

\* a.pdf and b.pdf of 129 chunks each were ingested at the same time into a
\* collection that held two records: the first batch of b.pdf was upserted
\* after that of a.pdf, the second before that of a.pdf, so the collection
\* holds records of both under ids both produce.
C30_Witness ==
  /\ PairDone
  /\ opened # <<>>
  /\ runs[1].doc.name = "a.pdf" /\ runs[2].doc.name = "b.pdf"
  /\ Len(runs[1].chunks) = BATCH + 1 /\ Len(runs[2].chunks) = BATCH + 1
  /\ \E j, k \in 1..Len(store) :
       /\ {store[j].id, store[k].id} \subseteq DOMAIN writer
       /\ writer[store[j].id] = 2 /\ store[j].metadata.source = "b.pdf"
       /\ writer[store[k].id] = 1 /\ store[k].metadata.source = "a.pdf"
       /\ \A p \in 1..2 : \E c \in 1..Len(runs[p].chunks) :
            runs[p].chunks[c].chunk_id = store[j].id
       /\ \A p \in 1..2 : \E c \in 1..Len(runs[p].chunks) :
            runs[p].chunks[c].chunk_id = store[k].id

\* The same document was ingested twice at the same time and the batches
\* of the two commands alternated.
C30_WitnessSame ==
  /\ PairDone
  /\ runs[1] = runs[2]
  /\ Len(runs[1].chunks) = BATCH + 1
  /\ writer[runs[1].chunks[1].chunk_id] = 2
  /\ writer[runs[1].chunks[BATCH + 1].chunk_id] = 1

\* The handle names a process that has not exited.
DashboardAlive == streamlit_process # 0 /\ streamlit_process \in alive

\* C21: a stop_dashboard call made while the process of the handle is alive
\* ends that process and clears the handle, so that get_dashboard_status
\* in the state it leaves, and a get_dashboard_status call that follows it
\* at once, report "Not running."; made while no process is alive (none
\* started, stopped before, or exited on its own) it returns "No dashboard
\* is currently running." and changes neither the handle nor the processes
\* nor the file.
C21_Step ==
  /\ call' = <<"stop_dashboard">> =>
       IF DashboardAlive
       THEN /\ alive' = alive \ {streamlit_process}
            /\ streamlit_process' = 0
            /\ reply' = <<"Streamlit dashboard stopped.">>
            /\ DashboardStatus(streamlit_process', alive') = <<"Not running.">>
            /\ UNCHANGED <<dashboard_file, spawned>>
       ELSE /\ reply' = <<"No dashboard is currently running.">>
            /\ UNCHANGED <<dashboard, db, executed, ingest, pair>>
  /\ (call = <<"stop_dashboard">> /\ call' = <<"get_dashboard_status">>) =>
       reply' = <<"Not running.">>

C21_StopDashboard == [][C21_Step]_vars

\* stop_dashboard has stopped the second process the server started.
C21_Witness ==
  /\ call = <<"stop_dashboard">>
  /\ reply = <<"Streamlit dashboard stopped.">>
  /\ streamlit_process = 0
  /\ alive = {}
  /\ spawned = 2

\* stop_dashboard was called after the process had exited on its own: the
\* handle still names it.
C21_WitnessExited ==
  /\ call = <<"stop_dashboard">>
  /\ reply = <<"No dashboard is currently running.">>
  /\ streamlit_process # 0
  /\ alive = {}

\* C22: when create_dashboard(code) returns, dashboard.py holds code,
\* whatever pip returned, and the handle names a process that is alive;
\* a process was started if and only if the handle named no process that
\* was alive before the call; if it did, that process, the handle and the
\* set of processes are as before.
C22_Step ==
  (call' # <<>> /\ call'[1] = "create_dashboard") =>
    /\ dashboard_file' = [exists |-> TRUE, code |-> call'[2]]
    /\ streamlit_process' # 0
    /\ streamlit_process' \in alive'
    /\ (spawned' # spawned) <=> ~DashboardAlive
    /\ (alive' # alive) <=> ~DashboardAlive
    /\ DashboardAlive => UNCHANGED <<streamlit_process, alive, spawned>>
    /\ ~DashboardAlive =>
         /\ spawned' = spawned + 1
         /\ streamlit_process' \notin alive
         /\ alive' = alive \cup {streamlit_process'}

C22_CreateDashboard == [][C22_Step]_vars

\* create_dashboard was called while a process was alive and pip failed:
\* the file holds the new code and the process is the one started before.
C22_Witness ==
  /\ call # <<>> /\ call[1] = "create_dashboard"
  /\ reply[2] = <<"pip error">>
  /\ reply[3] = "Dashboard updated"
  /\ dashboard_file.code = call[2]
  /\ dashboard_file.code # RepoCode
  /\ alive = {streamlit_process}
  /\ spawned = 1

\* create_dashboard started a second process after the first had exited.
C22_WitnessRestart ==
  /\ call # <<>> /\ call[1] = "create_dashboard"
  /\ reply[3] = "Streamlit running"
  /\ alive = {streamlit_process}
  /\ spawned = 2

\* C26: in every state the tool calls and the exits of the process lead
\* to, at most one process the server started is alive, and it is the one
\* of the handle; what get_dashboard_status has just returned is "Running"
\* with the pid of that process if one is alive, and "Not running."
\* otherwise.
C26_OneDashboard ==
  /\ Cardinality(alive) <= 1
  /\ alive \subseteq {streamlit_process}
  /\ 0 \notin alive
  /\ call = <<"get_dashboard_status">> =>
       /\ reply[1] = "Running" <=> alive # {}
       /\ alive # {} => reply = <<"Running", CHOOSE p \in alive : TRUE>>
       /\ alive = {} => reply = <<"Not running.">>

\* get_dashboard_status reports that nothing runs although the handle is
\* set: the third process the server started has exited on its own.
C26_Witness ==
  /\ call = <<"get_dashboard_status">>
  /\ reply = <<"Not running.">>
  /\ streamlit_process = 3
  /\ spawned = 3

\* get_dashboard_status reports the second process the server started.
C26_WitnessRunning ==
  /\ call = <<"get_dashboard_status">>
  /\ reply = <<"Running", 2>>
  /\ alive = {2}

====
